---- MODULE Spec2Model ----
(***************************************************************************)
(* State-machine model of the ChatInterface React component                *)
(* (src/app/components/ChatInterface.js).                                  *)
(*                                                                         *)
(* React state (messages, isAiTyping, aiSession, encryptionKey) is the     *)
(* model state.  Every async function of the component is split at its     *)
(* await points: the code between two awaits runs to completion on the     *)
(* single UI thread and is one action.  A handler reads the props and the  *)
(* state of the render that created it (its closure); functional updates   *)
(* setMessages(prev => ...) act on the current list.                       *)
(*                                                                         *)
(* Strings are sequences of tokens.  Date.now() is the variable now.       *)
(* A request on the IndexedDB stores takes effect when it is issued        *)
(* (transactions on one store run in creation order); the promise it       *)
(* returns settles in a later action.                                      *)
(***************************************************************************)
EXTENDS Integers, Sequences, FiniteSets, TLC

\* ---------------------------------------------------------------- bounds
MaxSends == 2      \* sends invoked during one mount
MaxTime == 2       \* Date.now() ranges over 1..MaxTime
MaxChunks == 2     \* snapshots one stream yields at most
MaxLoads == 1      \* loadMessages calls pending at the same time
MaxSwitches == 1   \* thread switches by the parent during one mount
MaxClears == 1     \* clearChats calls during one mount
MaxFaults == 1     \* failures of the store and of the stream during one mount

\* ------------------------------------------------------- program constants
InitSuffix == 0          \* the "init" suffix of the greeting's id
AiIdOffset == 1          \* Date.now() + 1
UnavailableIdOffset == 2 \* Date.now() + 2
ErrorIdOffset == 3       \* Date.now() + 3
HistoryLength == 5       \* const historyLength = 5
NameWords == 5           \* slice(0, 5)

Threads == {"A", "B"}
NoThread == "null"
NoKey == "null"
Key == "k1"
NoSession == "null"
Session == "session"
Sends == 1..MaxSends

\* tokens of the strings the model uses
SP == " "
NL == "\n"
FENCE == "fence"   \* the code fence, three backticks
GreetingText == <<"\n\n Hello! I'm Athena, your friendly AI assistant. How can I help you today?">>
UnavailableText == <<"AI session is not available.">>
ErrorPrefix == <<"Error: ">>
UnknownErrorText == <<"Unknown error occurred">>
Ellipsis == <<"...">>

\* what the user types, what the host streams, what an exception carries
Story == <<"Tell", SP, "me", SP, "a", SP, "story", SP, "about", SP, "dragons", SP, "please">>
UserContents == {<<"a">>, Story}
Chunks == {<<"x">>, <<"x", FENCE, NL, "y", SP, FENCE>>}
ErrorMessages == {<<"boom">>, <<>>}

VARIABLES
    mounted,          \* "rendered" (first render, effects not yet run), "mounted", "unmounted"
    messages,         \* useState([]): the in-memory message list
    isAiTyping,       \* useState(false)
    aiSession,        \* useState(null)
    encryptionKey,    \* useState(null)
    currentThreadId,  \* prop
    mountThreadId,    \* currentThreadId of the first render (closure of the mount effect)
    storeChats,       \* prop config.storeChats
    db,               \* prop db: TRUE when the store handle is supplied
    windowAi,         \* TRUE when window.ai exists
    initPc,           \* position of initAISession
    sessionDestroyed, \* aiSession.destroy() was called
    loads,            \* pending loadMessages calls
    messagesStore,    \* object store "messages", in storage order
    threadsStore,     \* object store "threads"
    sends,            \* the handleSendMessage calls
    renameCalls,      \* calls of onUpdateThreadName, in order
    clearPc,          \* position of clearAllChats
    clearTx,          \* the transaction clearAllChats opened, and what it did
    now,              \* Date.now()
    nSwitches,        \* thread switches so far
    nClears,          \* clearChats calls so far
    nFaults           \* store and stream failures so far

vars == <<mounted, messages, isAiTyping, aiSession, encryptionKey, currentThreadId, mountThreadId,
          storeChats, db, windowAi, initPc, sessionDestroyed, loads, messagesStore,
          threadsStore, sends, renameCalls, clearPc, clearTx, now, nSwitches, nClears,
          nFaults>>

\* props and globals that do not change during one mount
envVars == <<mountThreadId, storeChats, db, windowAi>>

\* the counters that bound a run
counters == <<nSwitches, nClears, nFaults>>

\* a failure of the environment may be injected
CanFail == nFaults < MaxFaults
Fail == CanFail /\ nFaults' = nFaults + 1
NoFail == nFaults' = nFaults

\* ------------------------------------------------------------- strings
\* String.prototype.slice(n) / Array.prototype.slice(n), n >= 0
Slice(s, n) == IF n >= Len(s) THEN <<>> ELSE SubSeq(s, n + 1, Len(s))

\* Array.prototype.slice(-n)
SliceLast(s, n) == IF Len(s) <= n THEN s ELSE SubSeq(s, Len(s) - n + 1, Len(s))

\* Array.prototype.slice(0, n)
SliceFirst(s, n) == IF Len(s) <= n THEN s ELSE SubSeq(s, 1, n)

\* whether snapshot b extends snapshot a
IsPrefix(a, b) == Len(a) <= Len(b) /\ SubSeq(b, 1, Len(a)) = a

\* ------------------------------------------------------------ messages
MessageId(threadId, suffix) == <<threadId, suffix>>

\* {id, threadId, type, content, timestamp}; no code of the component reads a
\* timestamp, and the model leaves the field out
Message(id, threadId, type, content, timestamp) ==
    [id |-> id, threadId |-> threadId, type |-> type, content |-> content]

\* prev.map(msg => msg.id === id ? {...msg, content: text} : msg)
SetContent(prev, id, text) ==
    [i \in 1..Len(prev) |->
        IF prev[i].id = id THEN [prev[i] EXCEPT !.content = text] ELSE prev[i]]

\* encryptMessage / decryptMessage of ../utils/encrypt
EncryptMessage(content, key) == [cipher |-> content, key |-> key]
DecryptMessage(c, key) == c.cipher

\* ----------------------------------------------------------------- Init
IdleSend ==
    [pc |-> "idle", content |-> <<>>, threadId |-> NoThread, aiSession |-> NoSession,
     messages |-> <<>>, aiMessageId |-> <<>>, prompt |-> <<>>, fullResponse |-> <<>>,
     previousLength |-> 0, nChunks |-> 0, lastChunk |-> <<>>, cumulative |-> TRUE,
     overlap |-> FALSE, error |-> <<>>, log |-> <<>>]

NoTx == [scope |-> {}, mode |-> "none", cleared |-> {}, savedThreads |-> {},
         savedMessages |-> <<>>]

InitComponent ==
    /\ mounted = "rendered"
    /\ messages = <<>>
    /\ isAiTyping = FALSE
    /\ aiSession = NoSession
    /\ encryptionKey = NoKey
    /\ currentThreadId \in Threads \cup {NoThread}
    /\ mountThreadId = currentThreadId
    /\ storeChats \in BOOLEAN
    /\ db \in BOOLEAN
    /\ windowAi \in BOOLEAN
    /\ initPc = "idle"
    /\ sessionDestroyed = FALSE
    /\ loads = {}
    /\ threadsStore = Threads
    /\ sends = [s \in Sends |-> IdleSend]
    /\ renameCalls = <<>>
    /\ clearPc = "idle"
    /\ clearTx = NoTx
    /\ now = 1
    /\ nSwitches = 0
    /\ nClears = 0
    /\ nFaults = 0

\* the first render of a browser that has stored nothing yet
Init == InitComponent /\ messagesStore = <<>>

\* the records an earlier mount stored: three exchanges of thread "A" and a user
\* message of thread "B", with timestamps before this mount
StoredRecord(threadId, suffix, type, content) ==
    Message(MessageId(threadId, suffix), threadId, type, EncryptMessage(content, Key), suffix)

StoredHistory ==
    << StoredRecord("A", -7, "user", <<"h1">>), StoredRecord("A", -6, "ai", <<"h2">>),
       StoredRecord("A", -5, "user", <<"h3">>), StoredRecord("B", -4, "user", <<"h4">>),
       StoredRecord("A", -3, "ai", <<"h5">>),   StoredRecord("A", -2, "user", <<"h6">>),
       StoredRecord("A", -1, "ai", <<"h7">>) >>

\* the first render of a browser that holds the records of an earlier mount
InitHistory == InitComponent /\ messagesStore = StoredHistory

\* ---------------------------------------------------- handleSendMessage
IsSpace(t) == t = SP \/ t = NL
IsWord(t) == ~IsSpace(t) /\ t # FENCE

RECURSIVE FirstIndex(_, _, _)
\* least i >= from with s[i] = t, or 0
FirstIndex(s, t, from) ==
    IF from > Len(s) THEN 0
    ELSE IF s[from] = t THEN from
    ELSE FirstIndex(s, t, from + 1)

RECURSIVE Split(_)
\* content.split(" ")
Split(s) ==
    LET i == FirstIndex(s, SP, 1)
    IN  IF i = 0 THEN <<s>>
        ELSE <<SubSeq(s, 1, i - 1)>> \o Split(SubSeq(s, i + 1, Len(s)))

RECURSIVE Join(_)
\* words.join(" ")
Join(words) ==
    IF Len(words) = 0 THEN <<>>
    ELSE IF Len(words) = 1 THEN words[1]
    ELSE words[1] \o <<SP>> \o Join(Tail(words))

\* content.split(" ").slice(0, 5).join(" ") + (content.split(" ").length > 5 ? "..." : "")
ThreadNameSixWords(content) ==
    Join(SliceFirst(Split(content), NameWords + 1))
        \o (IF Len(Split(content)) > NameWords THEN Ellipsis ELSE <<>>)

ThreadName(content) ==
    Join(SliceFirst(Split(content), NameWords))
        \o (IF Len(Split(content)) > NameWords THEN Ellipsis ELSE <<>>)

\* the turns of the prompt for the messages recent and the new content
PromptOf(recent, content) ==
        <<[role |-> "system", text |-> <<"systemPrompt">>]>>
        \o [i \in 1..Len(recent) |->
              [role |-> IF recent[i].type = "user" THEN "Human" ELSE "Assistant",
               text |-> recent[i].content]]
        \o <<[role |-> "Human", text |-> content]>>

\* the prompt: system prompt, the last historyLength messages of the closure's
\* list as Human/Assistant turns, then the new user turn
BuildPromptCurrent(closureMessages, content) ==
    PromptOf(SliceLast(messages, HistoryLength), content)

BuildPrompt(closureMessages, content) ==
    PromptOf(SliceLast(closureMessages, HistoryLength), content)

RECURSIVE TrimStart(_)
TrimStart(s) == IF s # <<>> /\ IsSpace(Head(s)) THEN TrimStart(Tail(s)) ELSE s

RECURSIVE TrimEnd(_)
TrimEnd(s) ==
    IF s # <<>> /\ IsSpace(s[Len(s)]) THEN TrimEnd(SubSeq(s, 1, Len(s) - 1)) ELSE s

\* String.prototype.trim()
Trim(s) == TrimEnd(TrimStart(s))

RECURSIVE WordRunEnd(_, _)
\* index of the first token at or after from that is not a \w token
WordRunEnd(s, from) ==
    IF from <= Len(s) /\ IsWord(s[from]) THEN WordRunEnd(s, from + 1) ELSE from

RECURSIVE FormatFrom(_, _)
\* fullResponse.replace(/```(\w+)?\n([\s\S]*?)```/g,
\*    (match, language, code) => "```" + (language || "") + "\n" + code.trim() + "\n```")
FormatFrom(s, i) ==
    IF i > Len(s) THEN <<>>
    ELSE LET nl == WordRunEnd(s, i + 1)
             close == FirstIndex(s, FENCE, nl + 1)
         IN  IF s[i] = FENCE /\ nl <= Len(s) /\ s[nl] = NL /\ close # 0
             THEN <<FENCE>> \o SubSeq(s, i + 1, nl - 1) \o <<NL>>
                  \o Trim(SubSeq(s, nl + 1, close - 1)) \o <<NL, FENCE>>
                  \o FormatFrom(s, close + 1)
             ELSE <<s[i]>> \o FormatFrom(s, i + 1)

FormatCodeBlocks(fullResponse) == FormatFrom(fullResponse, 1)

\* `Error: ${error.message || "Unknown error occurred"}`
ErrorTextOfMessage(errorMessage) == ErrorPrefix \o errorMessage

ErrorText(errorMessage) ==
    ErrorPrefix \o (IF errorMessage = <<>> THEN UnknownErrorText ELSE errorMessage)

Log(r, events) == [r EXCEPT !.log = r.log \o events]

\* the value of the typing flag after the finally block
FinallyTypingKept(typing) == typing

FinallyTyping(typing) == FALSE

\* the catch and finally blocks of the send: the error message is appended
CatchError(s, r, ms, errorMessage) ==
    /\ messages' = Append(ms, Message(MessageId(r.threadId, now + ErrorIdOffset), r.threadId,
                                      "ai", ErrorText(errorMessage), now + ErrorIdOffset))
    /\ isAiTyping' = FinallyTyping(TRUE)
    /\ sends' = [sends EXCEPT ![s] =
                    [Log(r, <<"appendError", "typingOff">>) EXCEPT !.pc = "done",
                                                                  !.messages = <<>>,
                                                                  !.error = errorMessage]]

\* whether this send names the thread: messages.length === 0 on the closure's list
NamesThread(r) == Len(r.messages) = 0

\* if (aiSession), on the closure's aiSession
HasSessionCurrent(r) == aiSession # NoSession

HasSession(r) == r.aiSession # NoSession

\* the no-session branch: the fixed message is appended
AppendUnavailableNone(ms, threadId) == ms

AppendUnavailable(ms, threadId) ==
    Append(ms, Message(MessageId(threadId, now + UnavailableIdOffset), threadId, "ai",
                       UnavailableText, now + UnavailableIdOffset))

\* the id of the placeholder AI message
AiMessageId(threadId) == MessageId(threadId, now + AiIdOffset)

\* lines 186-304 up to the first await of the streaming loop.  r is the send so
\* far, ms the list after the updates already made in this step, typing the flag.
AfterUserWrite(s, r, ms, typing) ==
    LET r1 == IF NamesThread(r) THEN Log(r, <<"rename">>) ELSE r
        aiMessageId == AiMessageId(r.threadId)
        ms2 == Append(ms, Message(aiMessageId, r.threadId, "ai", <<>>, now + AiIdOffset))
        r2 == [Log(r1, <<"appendPlaceholder", "promptStreaming">>)
                  EXCEPT !.aiMessageId = aiMessageId,
                         !.prompt = BuildPrompt(r.messages, r.content)]
    IN  /\ renameCalls' = IF NamesThread(r)
                          THEN Append(renameCalls, <<r.threadId, ThreadName(r.content)>>)
                          ELSE renameCalls
        /\ IF HasSession(r)
           THEN \/ /\ messages' = ms2
                   /\ isAiTyping' = typing
                   /\ sends' = [sends EXCEPT ![s] =
                                   [r2 EXCEPT !.pc = "streaming", !.messages = <<>>]]
                   /\ NoFail
                \/ /\ Fail                                       \* promptStreaming threw
                   /\ \E e \in ErrorMessages : CatchError(s, r2, ms2, e)
           ELSE /\ messages' = AppendUnavailable(ms, r.threadId)
                /\ isAiTyping' = FinallyTyping(typing)
                /\ sends' = [sends EXCEPT ![s] =
                                [Log(r1, <<"appendUnavailable", "typingOff">>)
                                    EXCEPT !.pc = "done", !.messages = <<>>]]
                /\ NoFail

\* whether the stream of another send is still to complete when send s starts
Overlaps(s) == \E t \in Sends \ {s} : sends[t].pc \in {"awaitUserWrite", "streaming"}

\* whether the component persists: config.storeChats && db
PersistsWithoutConfig == db

Persists == storeChats /\ db

\* the guard of the send: if (!encryptionKey || !currentThreadId) return
ReturnsEarlyKeyOnly == encryptionKey = NoKey

ReturnsEarly == encryptionKey = NoKey \/ currentThreadId = NoThread

\* the catch block of a write: console.error only, the list is not touched
WriteFailedRollsBack(ms) == SubSeq(ms, 1, Len(ms) - 1)

WriteFailed(ms) == ms

\* the user invokes handleSendMessage(content): lines 158-184 up to the await of
\* store.add, or through to the first await of the streaming loop when the user
\* message is not stored
SendStart(s) ==
    /\ mounted \in {"rendered", "mounted"}
    /\ sends[s].pc = "idle"
    /\ IF s = 1 THEN TRUE ELSE sends[s - 1].pc # "idle"
    /\ \E content \in UserContents :
        IF ReturnsEarly
        THEN /\ sends' = [sends EXCEPT ![s] =
                            [IdleSend EXCEPT !.pc = "done", !.content = content,
                                             !.log = <<"return">>]]
             /\ UNCHANGED <<messages, isAiTyping, messagesStore, renameCalls, nFaults>>
        ELSE LET userMessage == Message(MessageId(currentThreadId, now), currentThreadId,
                                        "user", content, now)
                 ms1 == Append(messages, userMessage)
                 r == [IdleSend EXCEPT !.content = content, !.threadId = currentThreadId,
                                       !.aiSession = aiSession, !.messages = messages,
                                       !.overlap = Overlaps(s),
                                       !.log = <<"appendUser", "typingOn">>]
             IN  IF Persists
                 THEN /\ \/ /\ messagesStore' = Append(messagesStore,
                                  [userMessage EXCEPT
                                      !.content = EncryptMessage(content, encryptionKey)])
                            /\ messages' = ms1
                            /\ NoFail
                         \/ /\ Fail                                  \* the add will reject
                            /\ messages' = WriteFailed(ms1)
                            /\ UNCHANGED messagesStore
                      /\ isAiTyping' = TRUE
                      /\ sends' = [sends EXCEPT ![s] =
                                      [Log(r, <<"addUser">>) EXCEPT !.pc = "awaitUserWrite"]]
                      /\ UNCHANGED renameCalls
                 ELSE /\ AfterUserWrite(s, r, ms1, TRUE)
                      /\ UNCHANGED messagesStore
    /\ UNCHANGED <<mounted, aiSession, encryptionKey, currentThreadId, envVars, initPc,
                   sessionDestroyed, loads, threadsStore, clearPc, clearTx, now,
                   nSwitches, nClears>>

\* await store.add(userMessage) settles (fulfilled, or rejected and logged)
UserWriteDone(s) ==
    /\ mounted = "mounted"
    /\ sends[s].pc = "awaitUserWrite"
    /\ AfterUserWrite(s, sends[s], messages, isAiTyping)
    /\ UNCHANGED <<mounted, aiSession, encryptionKey, currentThreadId, envVars, initPc,
                   sessionDestroyed, loads, messagesStore, threadsStore, clearPc, clearTx,
                   now, nSwitches, nClears>>

\* fullResponse += chunk.slice(previousLength)
AccumulateDelta(fullResponse, chunk, previousLength) == fullResponse \o chunk

Accumulate(fullResponse, chunk, previousLength) ==
    fullResponse \o Slice(chunk, previousLength)

\* the streaming loop takes one chunk: lines 228-239
StreamChunk(s) ==
    /\ mounted = "mounted"
    /\ sends[s].pc = "streaming"
    /\ sends[s].nChunks < MaxChunks
    /\ \E chunk \in Chunks :
        LET r == sends[s]
            fullResponse == Accumulate(r.fullResponse, chunk, r.previousLength)
        IN  /\ sends' = [sends EXCEPT ![s] =
                    [r EXCEPT !.fullResponse = fullResponse,
                              !.previousLength = Len(fullResponse),
                              !.nChunks = r.nChunks + 1,
                              !.lastChunk = chunk,
                              !.cumulative = r.cumulative /\ IsPrefix(r.lastChunk, chunk)]]
            /\ messages' = SetContent(messages, r.aiMessageId, fullResponse)
    /\ UNCHANGED <<mounted, isAiTyping, aiSession, encryptionKey, currentThreadId, envVars,
                   counters, initPc, sessionDestroyed, loads, messagesStore, threadsStore,
                   renameCalls, clearPc, clearTx, now>>

\* the stream is exhausted: lines 241-275, up to the await of store.add
StreamEnd(s) ==
    /\ mounted = "mounted"
    /\ sends[s].pc = "streaming"
    /\ LET r == sends[s]
           formattedResponse == FormatCodeBlocks(r.fullResponse)
           record == Message(r.aiMessageId, r.threadId, "ai",
                             EncryptMessage(formattedResponse, encryptionKey),
                             now + AiIdOffset)
           final == SetContent(messages, r.aiMessageId, r.fullResponse)
       IN  /\ IF Persists
              THEN /\ \/ /\ messagesStore' = Append(messagesStore, record)
                         /\ messages' = final
                         /\ NoFail
                      \/ /\ Fail                                     \* the add will reject
                         /\ messages' = WriteFailed(final)
                         /\ UNCHANGED messagesStore
                   /\ sends' = [sends EXCEPT ![s] =
                         [Log(r, <<"addAi">>) EXCEPT !.pc = "awaitAiWrite"]]
                   /\ UNCHANGED isAiTyping
              ELSE /\ messages' = final
                   /\ isAiTyping' = FinallyTyping(isAiTyping)
                   /\ sends' = [sends EXCEPT ![s] =
                            [Log(r, <<"typingOff">>) EXCEPT !.pc = "done"]]
                   /\ UNCHANGED <<messagesStore, nFaults>>
    /\ UNCHANGED <<mounted, aiSession, encryptionKey, currentThreadId, envVars,
                   initPc, sessionDestroyed, loads, threadsStore, renameCalls,
                   clearPc, clearTx, now, nSwitches, nClears>>

\* the stream throws while the loop awaits its next chunk
StreamThrow(s) ==
    /\ mounted = "mounted"
    /\ sends[s].pc = "streaming"
    /\ Fail
    /\ \E e \in ErrorMessages : CatchError(s, sends[s], messages, e)
    /\ UNCHANGED <<mounted, aiSession, encryptionKey, currentThreadId, envVars,
                   initPc, sessionDestroyed, loads, messagesStore, threadsStore, renameCalls,
                   clearPc, clearTx, now, nSwitches, nClears>>

\* await store.add(aiMessage) settles (fulfilled, or rejected and logged)
AiWriteDone(s) ==
    /\ mounted = "mounted"
    /\ sends[s].pc = "awaitAiWrite"
    /\ isAiTyping' = FinallyTyping(isAiTyping)
    /\ sends' = [sends EXCEPT ![s] = [Log(sends[s], <<"typingOff">>) EXCEPT !.pc = "done"]]
    /\ UNCHANGED <<mounted, messages, aiSession, encryptionKey, currentThreadId, envVars,
                   counters, initPc, sessionDestroyed, loads, messagesStore, threadsStore,
                   renameCalls, clearPc, clearTx, now>>

\* ------------------------------------------------------- loadMessages
\* store.index("threadId").getAll(threadId)
GetAllByThread(store, threadId) == SelectSeq(store, LAMBDA r : r.threadId = threadId)

\* messages.map(msg => ({...msg, content: decryptMessage(msg.content, key)}))
DecryptAll(records, key) ==
    [i \in 1..Len(records) |->
        [records[i] EXCEPT !.content = DecryptMessage(records[i].content, key)]]

\* the catch block of loadMessages: console.error only, the list is not touched
LoadFailed(prev) == prev

\* loadMessages(threadId) up to its await: db.transaction may throw (caught),
\* else the getAll request is issued.  ms is the list as the caller leaves it.
StartLoad(threadId, ms) ==
    \/ /\ Fail
       /\ loads' = loads
       /\ messages' = LoadFailed(ms)
    \/ /\ NoFail
       /\ Cardinality(loads) < MaxLoads
       /\ loads' = loads \cup {[threadId |-> threadId, key |-> Key,
                                result |-> GetAllByThread(messagesStore, threadId)]}
       /\ messages' = ms

\* useEffect(..., [currentThreadId, db, encryptionKey]) for a render with
\* thread threadId and key key
ThreadEffect(threadId, key, ms) ==
    IF threadId # NoThread /\ db /\ key # NoKey
    THEN StartLoad(threadId, ms)
    ELSE messages' = <<>> /\ loads' = loads /\ NoFail

\* the getAll promise of a pending load settles
LoadDone ==
    /\ mounted = "mounted"
    /\ \E l \in loads :
        /\ loads' = loads \ {l}
        /\ \/ /\ NoFail
              /\ messages' = DecryptAll(l.result, l.key)
           \/ /\ Fail                                               \* getAll rejected
              /\ messages' = LoadFailed(messages)
           \/ /\ Fail                                               \* decryptMessage threw
              /\ l.result # <<>>
              /\ messages' = LoadFailed(messages)
    /\ UNCHANGED <<mounted, isAiTyping, aiSession, encryptionKey, currentThreadId, envVars,
                   initPc, sessionDestroyed, messagesStore, threadsStore, sends,
                   renameCalls, clearPc, clearTx, now, nSwitches, nClears>>

\* the parent selects another thread (or none)
SwitchThread ==
    /\ mounted = "mounted"
    /\ nSwitches < MaxSwitches
    /\ nSwitches' = nSwitches + 1
    /\ \E t \in (Threads \cup {NoThread}) \ {currentThreadId} :
        /\ currentThreadId' = t
        /\ ThreadEffect(t, encryptionKey, messages)
    /\ UNCHANGED <<mounted, isAiTyping, aiSession, encryptionKey, envVars,
                   initPc, sessionDestroyed, messagesStore, threadsStore, sends,
                   renameCalls, clearPc, clearTx, now, nClears>>

\* ------------------------------------------------ mount, initAISession
\* the aiSession the cleanup of the mount effect reads: the effect has no
\* dependencies, so its closure is that of the first render
CleanupSession == NoSession

\* the two effects of the first commit: initialize() up to the first await of
\* initAISession, then the thread effect (key still null: setMessages([])),
\* then the thread effect of the render that has the key
Mount ==
    /\ mounted = "rendered"
    /\ mounted' = "mounted"
    /\ encryptionKey' = Key
    /\ initPc' = IF windowAi THEN "probe" ELSE "done"
    /\ ThreadEffect(currentThreadId, Key, <<>>)
    /\ UNCHANGED <<isAiTyping, aiSession, currentThreadId, envVars, sessionDestroyed,
                   messagesStore, threadsStore, sends, renameCalls, clearPc, clearTx, now,
                   nSwitches, nClears>>

\* await window.ai.canCreateTextSession() settles
ProbeDone ==
    /\ mounted = "mounted"
    /\ initPc = "probe"
    /\ \E canCreate \in {"readily", "after-download", "no", "throw"} :
        initPc' = IF canCreate \in {"no", "throw"} THEN "done" ELSE "create"
    /\ UNCHANGED <<mounted, messages, isAiTyping, aiSession, encryptionKey, currentThreadId,
                   envVars, counters, sessionDestroyed, loads, messagesStore,
                   threadsStore, sends, renameCalls, clearPc, clearTx, now>>

\* the greeting initAISession pushes; threadId is the first render's currentThreadId
Greeting(threadId) ==
    Message(MessageId(threadId, InitSuffix), threadId, "ai", GreetingText, now)

\* await window.ai.createTextSession(...) settles
CreateDone ==
    /\ mounted = "mounted"
    /\ initPc = "create"
    /\ initPc' = "done"
    /\ \/ /\ aiSession' = Session
          /\ messages' = Append(messages, Greeting(mountThreadId))
       \/ UNCHANGED <<aiSession, messages>>               \* createTextSession rejected
    /\ UNCHANGED <<mounted, isAiTyping, encryptionKey, currentThreadId,
                   envVars, counters, sessionDestroyed, loads, messagesStore,
                   threadsStore, sends, renameCalls, clearPc, clearTx, now>>

\* the component unmounts: the cleanup of the mount effect runs, and React discards
\* the component's state.  The model does not follow the calls still in flight.
Unmount ==
    /\ mounted = "mounted"
    /\ mounted' = "unmounted"
    /\ sessionDestroyed' = (CleanupSession # NoSession)
    /\ messages' = <<>>
    /\ isAiTyping' = FALSE
    /\ loads' = {}
    /\ sends' = [s \in Sends |-> IdleSend]
    /\ renameCalls' = <<>>
    /\ clearPc' = "idle"
    /\ clearTx' = NoTx
    /\ initPc' = "done"
    /\ now' = 1
    /\ nSwitches' = 0
    /\ nClears' = 0
    /\ nFaults' = 0
    /\ UNCHANGED <<aiSession, encryptionKey, currentThreadId, envVars, messagesStore,
                   threadsStore>>

\* a millisecond passes
Tick ==
    /\ mounted # "unmounted"
    /\ now < MaxTime
    /\ now' = now + 1
    /\ UNCHANGED <<mounted, messages, isAiTyping, aiSession, encryptionKey, currentThreadId,
                   envVars, counters, initPc, sessionDestroyed, loads, messagesStore,
                   threadsStore, sends, renameCalls, clearPc, clearTx>>

\* -------------------------------------------------------- clearAllChats
\* db.transaction(["threads", "messages"], "readwrite")
ClearScope == {"threads", "messages"}

\* the end of clearAllChats: setMessages([])
ClearReturnKeepsList ==
    /\ messages' = messages
    /\ clearPc' = "done"

ClearReturn ==
    /\ messages' = <<>>
    /\ clearPc' = "done"

\* the parent invokes clearChats(): up to the await of the first clear
ClearStart ==
    /\ mounted = "mounted"
    /\ nClears < MaxClears
    /\ nClears' = nClears + 1
    /\ clearPc \in {"idle", "done"}
    /\ IF Persists
       THEN \/ /\ Fail                                            \* db.transaction threw
               /\ clearTx' = [NoTx EXCEPT !.mode = "threw"]
               /\ ClearReturn
               /\ UNCHANGED <<threadsStore, messagesStore>>
            \/ /\ NoFail
               /\ clearTx' = [scope |-> ClearScope, mode |-> "readwrite",
                              cleared |-> {"threads"}, savedThreads |-> threadsStore,
                              savedMessages |-> <<>>]
               /\ threadsStore' = {}
               /\ clearPc' = "awaitThreads"
               /\ UNCHANGED <<messages, messagesStore>>
       ELSE /\ NoFail
            /\ clearTx' = NoTx
            /\ ClearReturn
            /\ UNCHANGED <<threadsStore, messagesStore>>
    /\ UNCHANGED <<mounted, isAiTyping, aiSession, encryptionKey, currentThreadId, envVars,
                   initPc, sessionDestroyed, loads, sends, renameCalls, now, nSwitches>>

\* await tx.objectStore("threads").clear() settles; then messages.clear() is issued
ClearThreadsDone ==
    /\ mounted = "mounted"
    /\ clearPc = "awaitThreads"
    /\ \/ /\ NoFail
          /\ clearTx' = [clearTx EXCEPT !.cleared = @ \cup {"messages"},
                                        !.savedMessages = messagesStore]
          /\ messagesStore' = <<>>
          /\ clearPc' = "awaitMessages"
          /\ UNCHANGED <<messages, threadsStore>>
       \/ /\ Fail                                  \* rejected: the transaction aborts
          /\ clearTx' = [clearTx EXCEPT !.mode = "aborted", !.cleared = {},
                                        !.savedThreads = {}]
          /\ threadsStore' = clearTx.savedThreads
          /\ ClearReturn
          /\ UNCHANGED messagesStore
    /\ UNCHANGED <<mounted, isAiTyping, aiSession, encryptionKey, currentThreadId, envVars,
                   initPc, sessionDestroyed, loads, sends, renameCalls, now,
                   nSwitches, nClears>>

\* await tx.objectStore("messages").clear() settles.  A rejection aborts the
\* transaction: both stores get back what they held; the records added by
\* later transactions follow.
ClearMessagesDone ==
    /\ mounted = "mounted"
    /\ clearPc = "awaitMessages"
    /\ \/ /\ NoFail
          /\ clearTx' = [clearTx EXCEPT !.savedThreads = {}, !.savedMessages = <<>>]
          /\ UNCHANGED <<threadsStore, messagesStore>>
       \/ /\ Fail
          /\ clearTx' = [clearTx EXCEPT !.mode = "aborted", !.cleared = {},
                                        !.savedThreads = {}, !.savedMessages = <<>>]
          /\ threadsStore' = clearTx.savedThreads
          /\ messagesStore' = clearTx.savedMessages \o messagesStore
    /\ ClearReturn
    /\ UNCHANGED <<mounted, isAiTyping, aiSession, encryptionKey, currentThreadId, envVars,
                   initPc, sessionDestroyed, loads, sends, renameCalls, now,
                   nSwitches, nClears>>

\* ------------------------------------------------------------- the spec
\* one send, with every other operation of the component
Next ==
    \/ Mount
    \/ ProbeDone
    \/ CreateDone
    \/ LoadDone
    \/ SwitchThread
    \/ Unmount
    \/ Tick
    \/ SendStart(1)
    \/ UserWriteDone(1)
    \/ StreamChunk(1)
    \/ StreamEnd(1)
    \/ StreamThrow(1)
    \/ AiWriteDone(1)
    \/ ClearStart
    \/ ClearThreadsDone
    \/ ClearMessagesDone

Spec == Init /\ [][Next]_vars

\* the sends of one thread, overlapping or one after the other
NextSends ==
    \/ Mount
    \/ ProbeDone
    \/ CreateDone
    \/ LoadDone
    \/ Tick
    \/ \E s \in Sends : SendStart(s)
    \/ \E s \in Sends : UserWriteDone(s)
    \/ \E s \in Sends : StreamChunk(s)
    \/ \E s \in Sends : StreamEnd(s)
    \/ \E s \in Sends : StreamThrow(s)
    \/ \E s \in Sends : AiWriteDone(s)

\* no thread switch happens here, and thread "B" would only mirror thread "A"
InitSends == Init /\ currentThreadId \in {"A", NoThread}

SpecSends == InitSends /\ [][NextSends]_vars

\* one send in a browser that holds a stored history
SpecHistory == InitHistory /\ [][Next]_vars

\* ----------------------------------------------------------- the claims
Started(r) == r.pc # "idle" /\ r.log # <<"return">>
Running(r) == r.pc \in {"awaitUserWrite", "streaming", "awaitAiWrite"}
Exits(s) == sends[s].pc # "done" /\ sends'[s].pc = "done" /\ Started(sends'[s])
Has(log, event) == \E i \in 1..Len(log) : log[i] = event

\* C1: a send that set the typing flag clears it in the step in which it exits
\* (stream completed, no-session fallback, exception caught), and whenever no
\* send is running the typing flag is false.
C1_TypingClearedOnExit ==
    /\ []((\A s \in Sends : ~Running(sends[s])) => ~isAiTyping)
    /\ [][\A s \in Sends : Exits(s) => ~isAiTyping']_vars

\* a send has failed (its error message was appended), another has completed
\* its stream, none is running
C1_Witness ==
    /\ \E s \in Sends : sends[s].pc = "done" /\ Has(sends[s].log, "appendError")
    /\ \E s \in Sends : sends[s].pc = "done" /\ sends[s].nChunks > 0
                        /\ ~Has(sends[s].log, "appendError")
    /\ \A s \in Sends : ~Running(sends[s])
    /\ ~isAiTyping

\* the send's stream has completed normally
StreamCompleted(r) ==
    /\ r.pc \in {"awaitAiWrite", "done"}
    /\ Has(r.log, "promptStreaming")
    /\ ~Has(r.log, "appendError")

\* the last snapshot of the send's stream
LastSnapshot(r) == r.lastChunk

\* C2: when two sends overlap and both streams (of cumulative snapshots) have
\* completed, every AI message that carries the id of a send's placeholder
\* shows the last snapshot of that send's stream.
C2_OwnStreamContent ==
    ((\E s \in Sends : sends[s].overlap)
        /\ \A s \in Sends : /\ StreamCompleted(sends[s])
                            /\ sends[s].cumulative
                            /\ sends[s].nChunks > 0)
    => \A s \in Sends : \A i \in 1..Len(messages) :
          (messages[i].id = sends[s].aiMessageId /\ messages[i].type = "ai")
              => messages[i].content = LastSnapshot(sends[s])

\* the k-th chunk of send s is processed in this step
TakesChunk(s) == sends'[s].nChunks = sends[s].nChunks + 1

\* the stream of send s completes in this step
CompletesStream(s) == sends[s].pc = "streaming" /\ StreamCompleted(sends'[s])

\* every message of list ms with the id of the send's placeholder has content text
PlaceholderShows(ms, r, text) ==
    \A i \in 1..Len(ms) : ms[i].id = r.aiMessageId => ms[i].content = text

\* C3: for a stream of cumulative snapshots, after the k-th chunk is processed
\* the placeholder's content is the k-th snapshot in full, and after the stream
\* completes it is the last snapshot.
C3_ContentIsSnapshot ==
    [][\A s \in Sends :
        /\ (TakesChunk(s) /\ sends'[s].cumulative)
              => PlaceholderShows(messages', sends'[s], sends'[s].lastChunk)
        /\ (CompletesStream(s) /\ sends[s].cumulative /\ sends[s].nChunks > 0)
              => PlaceholderShows(messages', sends'[s], sends[s].lastChunk)]_vars

\* the second of two cumulative snapshots has been processed and the placeholder,
\* still in the list, shows it in full
C3_Witness ==
    \E s \in Sends :
        /\ sends[s].pc = "streaming"
        /\ sends[s].nChunks = 2
        /\ sends[s].cumulative
        /\ Len(sends[s].lastChunk) > 1
        /\ \E i \in 1..Len(messages) :
              /\ messages[i].id = sends[s].aiMessageId
              /\ messages[i].content = sends[s].lastChunk

\* C4: once the component is unmounted, a session that was created during the
\* mount has been destroyed.
C4_SessionDestroyedOnUnmount ==
    (mounted = "unmounted" /\ aiSession = Session) => sessionDestroyed

\* the entries of the list a step adds
Growth == Len(messages') - Len(messages)

\* send s takes a step
Steps(s) == sends'[s] # sends[s] /\ mounted' # "unmounted" /\ Started(sends'[s])
Invoked(s) == sends[s].pc = "idle" /\ Steps(s)
Appends(s, event) == Has(sends'[s].log, event) /\ ~Has(sends[s].log, event)

\* C5 as stated: with persistence disabled, a send grows the list by exactly one
\* entry when no session exists and by exactly two when a session exists.
C5_GrowthOneOrTwo ==
    [][\A s \in Sends :
        (~storeChats /\ Invoked(s) /\ sends'[s].pc = "done"
            /\ ~Has(sends'[s].log, "appendError"))
        => Growth = IF sends'[s].aiSession = NoSession THEN 1 ELSE 2]_vars

\* C5 amended: with persistence disabled, the step that invokes a send grows
\* the list by exactly two entries, with or without a session (the user message
\* and the "unavailable" message or the placeholder); an exception caught in a
\* step of the send adds one more entry, and no other step of the send changes
\* the length of the list.
C5_GrowthTwo ==
    [][\A s \in Sends :
        (~storeChats /\ Steps(s))
        => Growth = (IF Invoked(s) THEN 2 ELSE 0)
                  + (IF Appends(s, "appendError") THEN 1 ELSE 0)]_vars

\* without persistence and without a session a send has run: the list holds its
\* user message and the "unavailable" message, two entries
C5_Witness ==
    /\ ~storeChats
    /\ sends[1].pc = "done"
    /\ sends[1].aiSession = NoSession
    /\ Len(messages) = 2
    /\ messages[1].type = "user"
    /\ messages[2].content = UnavailableText

\* C6: while config.storeChats is false no step changes the messages store or
\* the threads store: no send adds a record, clear-all clears no store.
C6_NoStorageWrite ==
    [][~storeChats => (messagesStore' = messagesStore /\ threadsStore' = threadsStore)]_vars

\* with the store handle supplied and persistence disabled, a send has streamed
\* to the end and clear-all has returned; both stores are as they were
C6_Witness ==
    /\ ~storeChats
    /\ db
    /\ sends[1].pc = "done"
    /\ sends[1].nChunks > 0
    /\ clearPc = "done"
    /\ threadsStore = Threads
    /\ messagesStore = <<>>

\* a load fails in this step: db.transaction threw when the thread effect called
\* loadMessages, or the pending getAll rejected, or decryptMessage threw
LoadFails ==
    /\ nFaults' = nFaults + 1
    /\ \/ Cardinality(loads') < Cardinality(loads)
       \/ nSwitches' = nSwitches + 1
       \/ mounted = "rendered" /\ mounted' = "mounted"

\* C7, for the load of the thread switched to: after a load that failed no
\* message of another thread is left in the list (as it would be were the list
\* empty).
C7_FailedLoadLeavesNoOtherThread ==
    [][(LoadFails /\ nSwitches' = nSwitches + 1)
        => \A i \in 1..Len(messages') : messages'[i].threadId = currentThreadId']_vars

\* the first send of its thread among the sends
FirstOfThread(s) == \A t \in Sends : t < s => sends[t].threadId # sends[s].threadId

\* the send is past the naming step
PastNaming(r) == Started(r) /\ r.pc # "awaitUserWrite"

\* C8: a send invokes the rename callback if and only if it is the first send
\* of its thread.
C8_RenameIffFirstSend ==
    \A s \in Sends :
        PastNaming(sends[s]) => (Has(sends[s].log, "rename") <=> FirstOfThread(s))

\* a send made without a session finishes in this step
FallsBack(s) ==
    /\ Steps(s)
    /\ sends[s].pc \in {"idle", "awaitUserWrite"}
    /\ sends'[s].aiSession = NoSession

\* C9: a send made while the session is absent appends, as the last entry of
\* the list, an AI message whose content is the fixed text, and never invokes
\* the streaming call.
C9_UnavailableFallback ==
    /\ [](\A s \in Sends :
            (Started(sends[s]) /\ sends[s].aiSession = NoSession)
            => /\ sends[s].pc \in {"awaitUserWrite", "done"}
               /\ ~Has(sends[s].log, "promptStreaming")
               /\ sends[s].prompt = <<>>
               /\ sends[s].nChunks = 0)
    /\ [][\A s \in Sends :
            (FallsBack(s) /\ sends'[s].pc = "done")
            => /\ Len(messages') = Len(messages) + (IF Invoked(s) THEN 2 ELSE 1)
               /\ messages'[Len(messages')].type = "ai"
               /\ messages'[Len(messages')].threadId = sends'[s].threadId
               /\ messages'[Len(messages')].content = UnavailableText]_vars

\* the session exists by now, but the send was made before and has fallen back
C9_Witness ==
    /\ aiSession = Session
    /\ sends[1].pc = "done"
    /\ sends[1].aiSession = NoSession
    /\ Started(sends[1])
    /\ \E i \in 1..Len(messages) : messages[i].content = UnavailableText

\* clearAllChats returns in this step
ClearReturns == clearPc' = "done" /\ (clearPc # "done" \/ nClears' # nClears)

\* the clear of object store name is issued in this step
Clears(name) == name \in clearTx'.cleared /\ name \notin clearTx.cleared

\* C10: when clear-all returns the in-memory list is empty, whatever the storage
\* did; with persistence enabled the threads store and then the messages store
\* are cleared in one read-write transaction over both stores.
C10_ClearAll ==
    [][/\ ClearReturns => messages' = <<>>
       /\ Clears("threads")
            => /\ Persists
               /\ threadsStore' = {}
               /\ clearTx'.scope = {"threads", "messages"} /\ clearTx'.mode = "readwrite"
       /\ Clears("messages")
            => /\ messagesStore' = <<>>
               /\ "threads" \in clearTx.cleared
               /\ clearTx'.scope = clearTx.scope /\ clearTx'.mode = clearTx.mode
       /\ (ClearReturns /\ Persists /\ nFaults' = nFaults /\ clearTx'.mode = "readwrite")
            => clearTx'.cleared = {"threads", "messages"}]_vars

\* clear-all has returned after its storage transaction failed, while a send was
\* streaming into the list; the list is empty
C10_Witness ==
    /\ clearPc = "done"
    /\ clearTx.mode \in {"threw", "aborted"}
    /\ sends[1].pc = "streaming"
    /\ sends[1].nChunks > 0
    /\ messages = <<>>

\* the greeting initAISession pushed is in the list
HasGreeting ==
    \E i \in 1..Len(messages) :
        /\ messages[i].id = MessageId(mountThreadId, InitSuffix)
        /\ messages[i].type = "ai"
        /\ messages[i].content = GreetingText

\* initAISession has created the session and the load the mount started has
\* finished; nothing else has been asked of the component
InitializedWithSession ==
    /\ mounted = "mounted"
    /\ initPc = "done"
    /\ aiSession = Session
    /\ loads = {}
    /\ nSwitches = 0
    /\ nClears = 0
    /\ \A s \in Sends : sends[s].pc = "idle"

\* C11: when the session was created on mount, the greeting is in the list once
\* initialization and the initial load have both finished, whichever of the
\* session creation and the load completed first.
C11_GreetingSurvivesLoad == InitializedWithSession => HasGreeting

\* the stream of the send has started and has neither completed nor failed
StreamInFlight(r) == r.pc = "streaming"

\* C12: while the response stream of a send is in flight the typing flag is
\* true, also when several sends overlap.
C12_TypingWhileStreaming ==
    \A s \in Sends : StreamInFlight(sends[s]) => isAiTyping

\* the last entry of the list
Last(ms) == ms[Len(ms)]

\* the send catches an exception in this step
Catches(s) == Steps(s) /\ Appends(s, "appendError")

\* the step that catches the exception of send s appends exactly one entry
\* after what the step appended before the exception: an AI message of the
\* send's thread with content text; the send is over
AppendsError(s, text) ==
    /\ Growth = 1 + (IF Invoked(s) THEN 1 ELSE 0)
                  + (IF Appends(s, "appendPlaceholder") THEN 1 ELSE 0)
    /\ SubSeq(messages', 1, Len(messages)) = messages
    /\ Last(messages').type = "ai"
    /\ Last(messages').threadId = sends'[s].threadId
    /\ Last(messages').content = text
    /\ \A i \in (Len(messages) + 1)..(Len(messages') - 1) :
          messages'[i].content \in UserContents \cup {<<>>}
    /\ sends'[s].pc = "done"

\* a send is invoked after another send has failed
InvokedAfterFailure(s) ==
    Invoked(s) /\ \E t \in Sends : sends[t].pc = "done" /\ Has(sends[t].log, "appendError")

\* a send invoked after a failure is processed as any send
ProcessedNormally(s) ==
    /\ Has(sends'[s].log, "appendUser")
    /\ messages'[Len(messages) + 1].type = "user"
    /\ messages'[Len(messages) + 1].content = sends'[s].content
    /\ sends'[s].aiSession = aiSession

\* C13 as stated: an exception raised in the session/streaming step of a send
\* appends exactly one AI message whose content is "Error: " followed by the
\* exception text, and the send ends there.
C13_ErrorIsExceptionText ==
    [][\A s \in Sends :
        Catches(s) => AppendsError(s, <<"Error: ">> \o sends'[s].error)]_vars

\* C13 amended: the content is "Error: " followed by the exception's message,
\* or by "Unknown error occurred" when the exception carries no message; the
\* exception does not leave the send, and a send invoked afterwards is
\* processed as any send.
C13_ErrorMessageAppended ==
    [][\A s \in Sends :
        /\ Catches(s) =>
              AppendsError(s, IF sends'[s].error = <<>>
                              THEN <<"Error: ", "Unknown error occurred">>
                              ELSE <<"Error: ">> \o sends'[s].error)
        /\ InvokedAfterFailure(s) => ProcessedNormally(s)]_vars

\* the first send failed with an exception that carries no message; the second
\* send, invoked after that, has streamed two snapshots to the end
C13_Witness ==
    /\ sends[1].pc = "done"
    /\ Has(sends[1].log, "appendError")
    /\ sends[1].error = <<>>
    /\ \E i \in 1..Len(messages) :
          messages[i].content = <<"Error: ", "Unknown error occurred">>
    /\ ~sends[2].overlap
    /\ StreamCompleted(sends[2])
    /\ sends[2].pc = "done"
    /\ sends[2].nChunks = 2

\* the positions of the spaces of a content
SpaceIndexes(c) == {i \in 1..Len(c) : c[i] = SP}

\* the content up to its n-th space, or all of it when it has fewer spaces
UpToSpace(c, n) ==
    IF Cardinality(SpaceIndexes(c)) < n THEN c
    ELSE LET i == CHOOSE k \in SpaceIndexes(c) :
                      Cardinality({j \in SpaceIndexes(c) : j <= k}) = n
         IN  SubSeq(c, 1, i - 1)

\* the first five space-separated words, and an ellipsis when there are more
FiveWordsName(c) ==
    UpToSpace(c, 5) \o (IF Cardinality(SpaceIndexes(c)) >= 5 THEN <<"...">> ELSE <<>>)

\* the list of the render whose handler send s runs
ClosureList(s) == IF sends[s].pc = "idle" THEN messages ELSE sends[s].messages

\* send s passes its naming step (lines 186-195) in this step, with an empty list
NamesEmptyThread(s) ==
    /\ Steps(s)
    /\ sends[s].pc \in {"idle", "awaitUserWrite"}
    /\ sends'[s].pc # "awaitUserWrite"
    /\ ClosureList(s) = <<>>

\* the rename callback is invoked once in this step, with (threadId, name)
Renames(threadId, name) == renameCalls' = Append(renameCalls, <<threadId, name>>)

\* C14 as stated: on the first send of an empty thread the rename callback
\* receives the thread id and the first five words of the content, with an
\* ellipsis when the content is longer; for "Tell me a story about dragons
\* please" it receives "Tell me a story about dragons...".
C14_NameWithDragons ==
    [][\A s \in Sends :
        NamesEmptyThread(s)
        => /\ Renames(sends'[s].threadId, FiveWordsName(sends'[s].content))
           /\ sends'[s].content = Story
                => Renames(sends'[s].threadId,
                           <<"Tell", SP, "me", SP, "a", SP, "story", SP, "about", SP,
                             "dragons", "...">>)]_vars

\* C14 amended: the same, and for "Tell me a story about dragons please" the
\* callback receives "Tell me a story about...".
C14_NameOfFiveWords ==
    [][\A s \in Sends :
        NamesEmptyThread(s)
        => /\ Renames(sends'[s].threadId, FiveWordsName(sends'[s].content))
           /\ sends'[s].content = Story
                => Renames(sends'[s].threadId,
                           <<"Tell", SP, "me", SP, "a", SP, "story", SP, "about", "...">>)]_vars

\* the first send of thread "A", made on an empty list with the seven-word
\* content, has named the thread
C14_Witness ==
    /\ sends[1].content = Story
    /\ sends[1].pc = "done"
    /\ renameCalls = << <<"A", <<"Tell", SP, "me", SP, "a", SP, "story", SP, "about", "...">> >> >>

\* the turn a message of the list is rendered as
TurnOf(m) == [role |-> IF m.type = "user" THEN "Human" ELSE "Assistant", text |-> m.content]

\* the number of history turns for a list of n messages: five, or all if fewer
HistoryTurns(n) == IF n < 5 THEN n ELSE 5

\* the prompt the claim describes for the list prior and the new content
PromptOver(prior, content) ==
    <<[role |-> "system", text |-> <<"systemPrompt">>]>>
    \o [i \in 1..HistoryTurns(Len(prior)) |->
            TurnOf(prior[Len(prior) - HistoryTurns(Len(prior)) + i])]
    \o <<[role |-> "Human", text |-> content]>>

\* send s builds its prompt and invokes the streaming call in this step
Prompts(s) == Steps(s) /\ Appends(s, "promptStreaming")

\* C15: the prompt of a send is the system prompt, then the last five messages
\* (all if fewer) of the list as it was before the send appended its user
\* message, in order, as Human and Assistant turns, then the new user turn once;
\* neither the new user message nor the new placeholder is among the history.
C15_PromptHistory ==
    [][\A s \in Sends :
        /\ (Invoked(s) /\ sends'[s].pc = "awaitUserWrite") => sends'[s].messages = messages
        /\ Prompts(s) =>
              LET prompt == sends'[s].prompt
              IN  /\ prompt = PromptOver(ClosureList(s), sends'[s].content)
                  /\ Len(prompt) <= 7
                  /\ prompt[Len(prompt)] = [role |-> "Human", text |-> sends'[s].content]
                  /\ \A i \in 2..(Len(prompt) - 1) :
                        prompt[i].text \notin {sends'[s].content, <<>>}]_vars

\* the stored history of six messages was loaded, the user write was awaited,
\* and the prompt holds the last five of them and the new turn
C15_Witness ==
    /\ Has(sends[1].log, "addUser")
    /\ sends[1].prompt =
          << [role |-> "system", text |-> <<"systemPrompt">>],
             [role |-> "Assistant", text |-> <<"h2">>],
             [role |-> "Human", text |-> <<"h3">>],
             [role |-> "Assistant", text |-> <<"h5">>],
             [role |-> "Human", text |-> <<"h6">>],
             [role |-> "Assistant", text |-> <<"h7">>],
             [role |-> "Human", text |-> Story] >>

\* the position of an event in a log, 0 when absent
IndexOf(log, event) ==
    IF Has(log, event) THEN CHOOSE i \in 1..Len(log) : log[i] = event ELSE 0

\* a write of send s is issued in this step and will fail
WriteFails(s) ==
    /\ Steps(s)
    /\ Appends(s, "addUser") \/ Appends(s, "addAi")
    /\ nFaults' = nFaults + 1

\* the record of the user message of send s, as stored
UserRecord(s) ==
    [id |-> <<sends'[s].threadId, now>>, threadId |-> sends'[s].threadId, type |-> "user",
     content |-> EncryptMessage(sends'[s].content, encryptionKey)]

\* C16: with persistence enabled a send writes its user record before it invokes
\* the streaming call and its AI record, in a later step, only after the stream
\* has completed normally; a send whose stream threw or that fell back writes no
\* AI record; a failed write is swallowed and removes nothing from the list.
C16_WriteOrder ==
    /\ [](\A s \in Sends :
            LET log == sends[s].log
            IN  /\ (Persists /\ Has(log, "promptStreaming"))
                     => (0 < IndexOf(log, "addUser")
                         /\ IndexOf(log, "addUser") < IndexOf(log, "promptStreaming"))
                /\ Has(log, "addAi")
                     => (Persists /\ StreamCompleted(sends[s])
                         /\ IndexOf(log, "promptStreaming") < IndexOf(log, "addAi"))
                /\ (Has(log, "appendError") \/ Has(log, "appendUnavailable"))
                     => ~Has(log, "addAi"))
    /\ [][\A s \in Sends :
            /\ (Persists /\ Invoked(s))
                 => /\ sends'[s].pc = "awaitUserWrite"
                    /\ nFaults' = nFaults => messagesStore' = Append(messagesStore, UserRecord(s))
            /\ Appends(s, "addAi")
                 => /\ CompletesStream(s)
                    /\ ~Appends(s, "addUser")
                    /\ nFaults' = nFaults
                         => /\ Len(messagesStore') = Len(messagesStore) + 1
                            /\ Last(messagesStore').id = sends[s].aiMessageId
                            /\ Last(messagesStore').type = "ai"
            /\ (Steps(s) /\ ~Appends(s, "addUser") /\ ~Appends(s, "addAi"))
                 => messagesStore' = messagesStore
            /\ WriteFails(s)
                 => /\ messagesStore' = messagesStore
                    /\ Len(messages') >= Len(messages)
                    /\ \A i \in 1..Len(messages) : messages'[i].id = messages[i].id
                    /\ ~Appends(s, "appendError")
                    /\ sends'[s].pc \in {"awaitUserWrite", "awaitAiWrite"}]_vars

\* the user write of the send failed and was swallowed: the stream ran to its
\* end, the store holds the AI record only, the list holds both messages
C16_Witness ==
    /\ Persists
    /\ nClears = 0
    /\ nFaults = 1
    /\ sends[1].pc = "done"
    /\ StreamCompleted(sends[1])
    /\ sends[1].nChunks > 0
    /\ Len(messagesStore) = 1
    /\ messagesStore[1].type = "ai"
    /\ \E i \in 1..Len(messages) : messages[i].type = "user"
    /\ \E i \in 1..Len(messages) : messages[i].id = sends[1].aiMessageId

\* send s is invoked in this step while the key or the thread id is missing
InvokedWithoutKeyOrThread(s) ==
    /\ sends[s].pc = "idle"
    /\ sends'[s].pc # "idle"
    /\ encryptionKey = NoKey \/ currentThreadId = NoThread

\* C17: a send invoked while the encryption key is not set or the current thread
\* id is missing changes neither the list, the typing flag nor the stores, and
\* invokes neither the rename callback nor the streaming call.
C17_SendWithoutKeyOrThread ==
    [][\A s \in Sends :
        InvokedWithoutKeyOrThread(s)
        => /\ UNCHANGED <<messages, isAiTyping, messagesStore, threadsStore, renameCalls>>
           /\ sends'[s].pc = "done"
           /\ sends'[s].prompt = <<>>
           /\ ~Has(sends'[s].log, "promptStreaming")
           /\ ~Has(sends'[s].log, "rename")
           /\ ~Has(sends'[s].log, "appendUser")]_vars

\* the key is set and a session exists, no thread is selected: the send has
\* returned and the list holds the greeting only
C17_Witness ==
    /\ mounted = "mounted"
    /\ encryptionKey = Key
    /\ aiSession = Session
    /\ currentThreadId = NoThread
    /\ sends[1].pc = "done"
    /\ sends[1].log = <<"return">>
    /\ Len(messages) = 1
    /\ ~isAiTyping
    /\ renameCalls = <<>>

\* a streaming update (per chunk or final) of send s is made in this step
UpdatesPlaceholder(s) == TakesChunk(s) \/ CompletesStream(s)

\* C18: a user message in the list keeps its content and its type in every
\* streaming update of any send: the update changes only the placeholder of the
\* send that makes it, whatever the timestamps of the sends.
C18_UserMessagesKept ==
    [][\A s \in Sends :
        UpdatesPlaceholder(s)
        => /\ Len(messages') = Len(messages)
           /\ \A i \in 1..Len(messages) :
                 messages[i].type = "user" => messages'[i] = messages[i]]_vars

\* C19: whenever no load is pending, every message of the list belongs to the
\* current thread, whatever the interleaving of thread switches, loads and sends
\* in flight.
C19_ListOfCurrentThread ==
    (mounted = "mounted" /\ loads = {})
    => \A i \in 1..Len(messages) : messages[i].threadId = currentThreadId

\* clear-all has completed without a failure: nothing to clear in the stores
\* (no persistence), or both clears of its transaction succeeded
ClearedSuccessfully ==
    /\ clearPc = "done"
    /\ \/ clearTx.mode = "none"
       \/ clearTx.mode = "readwrite" /\ clearTx.cleared = {"threads", "messages"}

\* a send is invoked or a load is started in this step
StartsSendOrLoad ==
    \/ \E s \in Sends : sends[s].pc = "idle" /\ sends'[s].pc # "idle"
    \/ nSwitches' # nSwitches
    \/ mounted' # mounted

\* initAISession has finished and no load is pending
Settled == initPc = "done" /\ loads = {}

\* C20, for a component whose initialization and loads have finished: once
\* clear-all has completed successfully and the list and the messages store are
\* empty, they stay empty in every step that starts neither a send nor a load,
\* also while a send begun before the clear is still in flight.
C20_StaysEmptyAfterClear ==
    [][(Settled /\ ClearedSuccessfully /\ messages = <<>> /\ messagesStore = <<>>
          /\ ClearedSuccessfully' /\ ~StartsSendOrLoad)
       => (messages' = <<>> /\ messagesStore' = <<>>)]_vars

====
